---- MODULE Spec2Model ----
(***************************************************************************)
(* Model of src/js/theme-switcher.js: the light/dark theme controller.     *)
(* The state is the page (root element's data-theme attribute, trigger     *)
(* elements and their listeners, the media-query subscription), the        *)
(* browser's localStorage entry 'sm-portal-theme', the OS colour-scheme    *)
(* signal, and the position of the start-up script.  `last' and `prev'     *)
(* record the two most recent controller operations (what was called, with *)
(* what, what it returned, and the marker and storage it started from);     *)
(* `inits' and `watches' count the calls of initThemeSwitchers and         *)
(* watchSystemTheme on the document now loaded.                            *)
(***************************************************************************)
EXTENDS Integers, Sequences, FiniteSets, TLC

VARIABLES storage, marker, prefersDark, hasMatchMedia, readyState, pc,
          dclListener, api, switchers, bound, hidden, subscribed, inits, watches,
          emitted, last, prev

vars == <<storage, marker, prefersDark, hasMatchMedia, readyState, pc,
          dclListener, api, switchers, bound, hidden, subscribed, inits, watches,
          emitted, last, prev>>

-----------------------------------------------------------------------------
(* Values *)

THEME_LIGHT == "light"

THEME_DARK == "dark"

Themes == {THEME_LIGHT, THEME_DARK}

\* localStorage.getItem returns null for a missing key
NoItem == "<null>"

\* getAttribute returns null for a missing attribute
NoAttr == "<no-attr>"

\* number of .theme-switcher elements a page may carry
MaxSwitchers == 2

\* what the entry may hold when a page loads: nothing, a theme, the empty
\* string, or some other string
StoredValues == {NoItem, THEME_LIGHT, THEME_DARK, "", "auto"}

\* data-theme as authored in the served HTML
AuthoredMarkers == {NoAttr, "dark", "light"}

\* arguments other code hands to ThemeSwitcher.setTheme
SetThemeArgs == {THEME_LIGHT, THEME_DARK, "auto"}

\* KeyboardEvent.key values tried on a trigger
Keys == {"Enter", " ", "Tab"}

-----------------------------------------------------------------------------
(* Functions of the script *)

\* localStorage.getItem(STORAGE_KEY): throws when storage access is denied
getItem(st, rok) == [threw |-> ~rok, val |-> st]

\* localStorage.setItem(STORAGE_KEY, v): throws on quota / denied access
setItem(st, v, wok) == [threw |-> ~wok, storage |-> IF wok THEN v ELSE st]

\* window.matchMedia && window.matchMedia('(prefers-color-scheme: dark)').matches
systemPrefersDark(mm, pd) == mm /\ pd

\* variant: the storage read is not guarded by try/catch
getStoredTheme_Unguarded(st, rok, mm, pd) ==
    LET r == getItem(st, rok)
    IN  IF r.threw THEN [threw |-> TRUE, val |-> "undefined"]
        ELSE IF r.val = THEME_DARK \/ r.val = THEME_LIGHT
             THEN [threw |-> FALSE, val |-> r.val]
             ELSE IF systemPrefersDark(mm, pd)
                  THEN [threw |-> FALSE, val |-> THEME_DARK]
                  ELSE [threw |-> FALSE, val |-> THEME_LIGHT]

\* variant: the system signal is consulted before the stored value
getStoredTheme_SystemFirst(st, rok, mm, pd) ==
    LET r == getItem(st, rok)
    IN  IF systemPrefersDark(mm, pd) THEN [threw |-> FALSE, val |-> THEME_DARK]
        ELSE IF ~r.threw /\ (r.val = THEME_DARK \/ r.val = THEME_LIGHT)
             THEN [threw |-> FALSE, val |-> r.val]
             ELSE [threw |-> FALSE, val |-> THEME_LIGHT]

getStoredTheme(st, rok, mm, pd) ==
    LET r == getItem(st, rok)
    IN  IF ~r.threw /\ (r.val = THEME_DARK \/ r.val = THEME_LIGHT)
        THEN [threw |-> FALSE, val |-> r.val]
        ELSE \* a throw is caught by the try/catch and only logged
             IF systemPrefersDark(mm, pd)
             THEN [threw |-> FALSE, val |-> THEME_DARK]
             ELSE [threw |-> FALSE, val |-> THEME_LIGHT]

\* variant: the write is not guarded by try/catch
saveTheme_Unguarded(st, theme, wok) ==
    LET w == setItem(st, theme, wok)
    IN  [threw |-> w.threw, storage |-> w.storage]

\* variant: the value is written under another key
saveTheme_OtherKey(st, theme, wok) ==
    [threw |-> FALSE, storage |-> st]

\* variant: choosing light removes the key instead of writing it
saveTheme_RemoveLight(st, theme, wok) ==
    LET w == setItem(st, theme, wok)
    IN  [threw |-> FALSE,
         storage |-> IF wok /\ theme = THEME_LIGHT THEN NoItem ELSE w.storage]

saveTheme(st, theme, wok) ==
    LET w == setItem(st, theme, wok)
    IN  \* a throw is caught by the try/catch and only logged
        [threw |-> FALSE, storage |-> w.storage]

\* variant: dark flips the attribute instead of setting it
applyTheme_Flip(m, theme) ==
    IF theme = THEME_DARK
    THEN (IF m = "dark" THEN NoAttr ELSE "dark")
    ELSE NoAttr

\* m is the attribute before the call; the result is the attribute after it
applyTheme(m, theme) ==
    IF theme = THEME_DARK THEN "dark" ELSE NoAttr

\* variant: the current theme is taken from storage, not from the marker
toggleTheme_FromStorage(m, st, wok) ==
    LET currentTheme == st
        newTheme == IF currentTheme = "dark" THEN THEME_LIGHT ELSE THEME_DARK
        s == saveTheme(st, newTheme, wok)
    IN  [marker  |-> applyTheme(m, newTheme),
         storage |-> s.storage,
         threw   |-> s.threw,
         emitted |-> IF s.threw THEN <<>> ELSE <<newTheme>>,
         ret     |-> IF s.threw THEN "undefined" ELSE newTheme]

\* variant: the attribute is compared with 'light' instead of 'dark'
toggleTheme_WrongCompare(m, st, wok) ==
    LET currentTheme == m
        newTheme == IF currentTheme = "light" THEN THEME_DARK ELSE THEME_LIGHT
        s == saveTheme(st, newTheme, wok)
    IN  [marker  |-> applyTheme(m, newTheme),
         storage |-> s.storage,
         threw   |-> s.threw,
         emitted |-> IF s.threw THEN <<>> ELSE <<newTheme>>,
         ret     |-> IF s.threw THEN "undefined" ELSE newTheme]

toggleTheme(m, st, wok) ==
    LET currentTheme == m
        newTheme == IF currentTheme = "dark" THEN THEME_LIGHT ELSE THEME_DARK
        s == saveTheme(st, newTheme, wok)
    IN  [marker  |-> applyTheme(m, newTheme),
         storage |-> s.storage,
         threw   |-> s.threw,
         emitted |-> IF s.threw THEN <<>> ELSE <<newTheme>>,
         ret     |-> IF s.threw THEN "undefined" ELSE newTheme]

\* variant: force-set applies but does not persist
setTheme_ApplyOnly(m, st, theme, wok) ==
    [marker  |-> applyTheme(m, theme),
     storage |-> st,
     threw   |-> FALSE]

\* window.ThemeSwitcher.setTheme
setTheme(m, st, theme, wok) ==
    LET s == saveTheme(st, theme, wok)
    IN  [marker  |-> applyTheme(m, theme),
         storage |-> s.storage,
         threw   |-> s.threw]

\* window.ThemeSwitcher.getTheme
getTheme(m) == IF m = "dark" THEN THEME_DARK ELSE THEME_LIGHT

\* variant: the listener follows the system whatever is stored
onSystemChange_Always(m, st, rok, matches) ==
    LET r == getItem(st, rok)
    IN  IF r.threw THEN [threw |-> TRUE, marker |-> m]
        ELSE [threw |-> FALSE,
              marker |-> applyTheme(m, IF matches THEN THEME_DARK ELSE THEME_LIGHT)]

\* variant: the listener's test is inverted (follows the system when a value
\* is stored)
onSystemChange_Inverted(m, st, rok, matches) ==
    LET r == getItem(st, rok)
        storedTheme == r.val
        falsy == storedTheme = NoItem \/ storedTheme = ""
    IN  IF r.threw THEN [threw |-> TRUE, marker |-> m]
        ELSE IF ~falsy
             THEN [threw |-> FALSE,
                   marker |-> applyTheme(m, IF matches THEN THEME_DARK ELSE THEME_LIGHT)]
             ELSE [threw |-> FALSE, marker |-> m]

\* the listener registered by watchSystemTheme; matches is e.matches
onSystemChange(m, st, rok, matches) ==
    LET r == getItem(st, rok)
        storedTheme == r.val
        falsy == storedTheme = NoItem \/ storedTheme = ""
    IN  IF r.threw THEN [threw |-> TRUE, marker |-> m]
        ELSE IF falsy
             THEN [threw |-> FALSE,
                   marker |-> applyTheme(m, IF matches THEN THEME_DARK ELSE THEME_LIGHT)]
             ELSE [threw |-> FALSE, marker |-> m]

\* initThemeSwitchers: every .theme-switcher gets its listeners and is unhidden
initThemeSwitchers(n) == 1..n

\* watchSystemTheme subscribes only where window.matchMedia exists
watchSystemTheme(mm) == mm

\* variant: only Enter activates a trigger
activates_EnterOnly(key) == key = "Enter"

\* handler of keydown on a trigger: does this key activate it?
activates(key) == key = "Enter" \/ key = " "

-----------------------------------------------------------------------------
(* Record of an operation *)

Rec(op, arg, ret, threw, io, dflt) ==
    [op |-> op, arg |-> arg, ret |-> ret, threw |-> threw, io |-> io,
     dflt |-> dflt, marker |-> marker, storage |-> storage]

NoRec == [op |-> "none", arg |-> "", ret |-> "undefined", threw |-> FALSE,
          io |-> TRUE, dflt |-> FALSE, marker |-> NoAttr, storage |-> NoItem]

Record(r) == /\ last' = r
             /\ prev' = last

-----------------------------------------------------------------------------
(* Initial state: the page is being loaded and the script has not run yet *)

Init ==
    /\ storage \in StoredValues
    /\ marker \in AuthoredMarkers
    /\ prefersDark \in BOOLEAN
    /\ hasMatchMedia \in BOOLEAN
    /\ readyState \in {"loading", "complete"}
    /\ pc = "start"
    /\ dclListener = FALSE
    /\ api = FALSE
    /\ switchers \in 0..MaxSwitchers
    /\ bound = {}
    /\ hidden = 1..switchers
    /\ subscribed = 0
    /\ inits = 0
    /\ watches = 0
    /\ emitted = <<>>
    /\ last = NoRec
    /\ prev = NoRec

-----------------------------------------------------------------------------
(* The start-up script, statement by statement *)

\* applyTheme(getStoredTheme())
StartupApply ==
    /\ pc = "start"
    /\ \E rok \in BOOLEAN :
         LET r == getStoredTheme(storage, rok, hasMatchMedia, prefersDark)
         IN  /\ IF r.threw
                THEN /\ pc' = "aborted"
                     /\ marker' = marker
                ELSE /\ pc' = "applied"
                     /\ marker' = applyTheme(marker, r.val)
             /\ Record(Rec("startup", "", r.val, r.threw, rok, FALSE))
    /\ emitted' = <<>>
    /\ UNCHANGED <<storage, prefersDark, hasMatchMedia, readyState,
                   dclListener, api, switchers, bound, hidden, subscribed, inits, watches>>

\* variant: while the document is loading the script binds at once and also
\* registers the deferred callback
StartupInit_BothBranches ==
    /\ pc = "applied"
    /\ bound' = bound \cup initThemeSwitchers(switchers)
    /\ hidden' = hidden \ initThemeSwitchers(switchers)
    /\ inits' = inits + 1
    /\ subscribed' = subscribed + (IF watchSystemTheme(hasMatchMedia) THEN 1 ELSE 0)
    /\ watches' = watches + 1
    /\ dclListener' = (readyState = "loading")
    /\ pc' = "inited"
    /\ UNCHANGED <<storage, marker, prefersDark, hasMatchMedia, readyState,
                   api, switchers, emitted, last, prev>>

\* if (document.readyState === 'loading') ... else ...
StartupInit ==
    /\ pc = "applied"
    /\ IF readyState = "loading"
       THEN /\ dclListener' = TRUE
            /\ UNCHANGED <<bound, hidden, subscribed, inits, watches>>
       ELSE /\ bound' = bound \cup initThemeSwitchers(switchers)
            /\ hidden' = hidden \ initThemeSwitchers(switchers)
            /\ inits' = inits + 1
            /\ subscribed' = subscribed + (IF watchSystemTheme(hasMatchMedia) THEN 1 ELSE 0)
            /\ watches' = watches + 1
            /\ UNCHANGED dclListener
    /\ pc' = "inited"
    /\ UNCHANGED <<storage, marker, prefersDark, hasMatchMedia, readyState,
                   api, switchers, emitted, last, prev>>

\* window.ThemeSwitcher = {...}
StartupExpose ==
    /\ pc = "inited"
    /\ api' = TRUE
    /\ pc' = "idle"
    /\ UNCHANGED <<storage, marker, prefersDark, hasMatchMedia, readyState,
                   dclListener, switchers, bound, hidden, subscribed, inits, watches,
                   emitted, last, prev>>

\* the document finishes parsing; the deferred callback runs if registered
DOMContentLoaded ==
    /\ pc \in {"start", "idle"}
    /\ readyState = "loading"
    /\ readyState' = "interactive"
    /\ IF dclListener
       THEN /\ bound' = bound \cup initThemeSwitchers(switchers)
            /\ hidden' = hidden \ initThemeSwitchers(switchers)
            /\ inits' = inits + 1
            /\ subscribed' = subscribed + (IF watchSystemTheme(hasMatchMedia) THEN 1 ELSE 0)
            /\ watches' = watches + 1
       ELSE UNCHANGED <<bound, hidden, subscribed, inits, watches>>
    /\ UNCHANGED <<storage, marker, prefersDark, hasMatchMedia, pc,
                   dclListener, api, switchers, emitted, last, prev>>

-----------------------------------------------------------------------------
(* Operations after start-up *)

DoToggle(op, arg, dflt) ==
    \E wok \in BOOLEAN :
      LET t == toggleTheme(marker, storage, wok)
      IN  /\ marker' = t.marker
          /\ storage' = t.storage
          /\ emitted' = t.emitted
          /\ Record(Rec(op, arg, t.ret, t.threw, wok, dflt))

\* ThemeSwitcher.toggle()
Toggle ==
    /\ pc = "idle" /\ api
    /\ DoToggle("toggle", "", FALSE)
    /\ UNCHANGED <<prefersDark, hasMatchMedia, readyState, pc, dclListener,
                   api, switchers, bound, hidden, subscribed, inits, watches>>

\* ThemeSwitcher.setTheme(theme)
SetTheme ==
    /\ pc = "idle" /\ api
    /\ \E theme \in SetThemeArgs, wok \in BOOLEAN :
         LET s == setTheme(marker, storage, theme, wok)
         IN  /\ marker' = s.marker
             /\ storage' = s.storage
             /\ Record(Rec("setTheme", theme, "undefined", s.threw, wok, FALSE))
    /\ emitted' = <<>>
    /\ UNCHANGED <<prefersDark, hasMatchMedia, readyState, pc, dclListener,
                   api, switchers, bound, hidden, subscribed, inits, watches>>

\* ThemeSwitcher.getTheme()
GetTheme ==
    /\ pc = "idle" /\ api
    /\ Record(Rec("getTheme", "", getTheme(marker), FALSE, TRUE, FALSE))
    /\ emitted' = <<>>
    /\ UNCHANGED <<storage, marker, prefersDark, hasMatchMedia, readyState,
                   pc, dclListener, api, switchers, bound, hidden, subscribed, inits, watches>>

\* click on a bound trigger
Click ==
    /\ pc = "idle"
    /\ \E i \in bound : DoToggle("click", "", TRUE)
    /\ UNCHANGED <<prefersDark, hasMatchMedia, readyState, pc, dclListener,
                   api, switchers, bound, hidden, subscribed, inits, watches>>

\* keydown on a bound trigger
Keydown ==
    /\ pc = "idle"
    /\ \E i \in bound, key \in Keys :
         IF activates(key)
         THEN DoToggle("keydown", key, TRUE)
         ELSE /\ Record(Rec("keydown", key, "undefined", FALSE, TRUE, FALSE))
              /\ emitted' = <<>>
              /\ UNCHANGED <<marker, storage>>
    /\ UNCHANGED <<prefersDark, hasMatchMedia, readyState, pc, dclListener,
                   api, switchers, bound, hidden, subscribed, inits, watches>>

\* the OS colour scheme flips; the change listener runs if subscribed
SystemChange ==
    /\ pc \in {"start", "idle"}
    /\ prefersDark' = ~prefersDark
    /\ IF subscribed > 0
       THEN \E rok \in BOOLEAN :
              LET h == onSystemChange(marker, storage, rok, ~prefersDark)
              IN  /\ marker' = h.marker
                  /\ Record(Rec("systemChange",
                                IF ~prefersDark THEN THEME_DARK ELSE THEME_LIGHT,
                                "undefined", h.threw, rok, FALSE))
                  /\ emitted' = <<>>
       ELSE UNCHANGED <<marker, emitted, last, prev>>
    /\ UNCHANGED <<storage, hasMatchMedia, readyState, pc, dclListener, api,
                   switchers, bound, hidden, subscribed, inits, watches>>

\* the page is reloaded: a fresh document, the same browser storage
Reload ==
    /\ pc = "idle"
    /\ pc' = "start"
    /\ marker' \in AuthoredMarkers
    /\ readyState' \in {"loading", "complete"}
    /\ dclListener' = FALSE
    /\ api' = FALSE
    /\ bound' = {}
    /\ hidden' = 1..switchers
    /\ subscribed' = 0
    /\ inits' = 0
    /\ watches' = 0
    /\ emitted' = <<>>
    /\ UNCHANGED <<storage, prefersDark, hasMatchMedia, switchers, last, prev>>

Next ==
    \/ StartupApply
    \/ StartupInit
    \/ StartupExpose
    \/ DOMContentLoaded
    \/ Toggle
    \/ SetTheme
    \/ GetTheme
    \/ Click
    \/ Keydown
    \/ SystemChange
    \/ Reload

Spec == Init /\ [][Next]_vars

\* Runs in which every storage read and write succeeds and setTheme is only
\* handed light or dark (storage is never modified from outside in any run)
NextOK ==
    /\ Next
    /\ last'.io
    /\ prev'.io
    /\ last'.op = "setTheme" => last'.arg \in Themes

SpecOK == Init /\ [][NextOK]_vars

-----------------------------------------------------------------------------
TypeOK ==
    /\ storage \in StoredValues
    /\ marker \in AuthoredMarkers
    /\ pc \in {"start", "applied", "inited", "idle", "aborted"}
    /\ bound \subseteq 1..switchers
    /\ subscribed \in 0..1
    /\ inits \in 0..1
    /\ watches \in 0..1

-----------------------------------------------------------------------------
(* Vocabulary of the properties *)

\* the attribute value that stands for a theme
MarkerFor(t) == IF t = THEME_DARK THEN "dark" ELSE NoAttr

\* the theme a marker state stands for
ThemeShown(m) == IF m = NoAttr THEN THEME_LIGHT ELSE THEME_DARK

\* the system signal as the page can see it
SystemTheme == IF hasMatchMedia /\ prefersDark THEN THEME_DARK ELSE THEME_LIGHT

\* `last' ran on the document now loaded (a reload has not happened since)
OnThisPage == pc # "start"

\* the operation recorded in r ran toggleTheme
IsToggle(r) == \/ r.op \in {"toggle", "click"}
               \/ r.op = "keydown" /\ r.arg \in {"Enter", " "}

\* the operation recorded in r called saveTheme; Persisted(r) is what it passed
IsPersist(r) == IsToggle(r) \/ r.op = "setTheme"

Persisted(r) == IF r.op = "setTheme" THEN r.arg ELSE r.ret

-----------------------------------------------------------------------------
(* C1 *)

\* C1: initial resolution never throws and always yields light or dark; when
\* the stored value is not light/dark (absent, empty, malformed) or the read
\* throws, it yields the system theme (dark iff the signal reports
\* prefers-dark); with nothing stored and no dark preference the start-up
\* apply leaves the marker absent.
C1_InitialFallback ==
    /\ pc # "aborted"
    /\ last.op = "startup" =>
         /\ ~last.threw
         /\ last.ret \in Themes
    /\ (pc = "applied" /\ (~last.io \/ last.storage \notin Themes)) =>
         /\ last.ret = SystemTheme
         /\ marker = MarkerFor(SystemTheme)
    /\ (pc = "applied" /\ last.storage = NoItem /\ SystemTheme = THEME_LIGHT) =>
         marker = NoAttr

\* the read threw while a malformed value was stored and the system prefers
\* dark: dark was resolved and applied
C1_Witness ==
    /\ pc = "applied"
    /\ ~last.io
    /\ last.storage = "auto"
    /\ last.marker = NoAttr
    /\ last.ret = THEME_DARK
    /\ marker = "dark"

-----------------------------------------------------------------------------
(* C2 *)

\* C2: when the start-up read yields exactly light or dark, initial resolution
\* returns that value whatever the system signal is, and after the start-up
\* apply the marker is present iff the stored value is dark.
C2_StoredWins ==
    (pc = "applied" /\ last.io /\ last.storage \in Themes) =>
        /\ last.ret = last.storage
        /\ (marker # NoAttr) <=> (last.storage = THEME_DARK)

\* stored light beat a system that prefers dark, and an authored dark marker
\* was removed
C2_Witness ==
    /\ pc = "applied"
    /\ last.io
    /\ last.storage = THEME_LIGHT
    /\ SystemTheme = THEME_DARK
    /\ last.marker = "dark"
    /\ last.ret = THEME_LIGHT
    /\ marker = NoAttr

-----------------------------------------------------------------------------
(* C3 *)

\* C3: whenever storage holds light or dark, a system-preference change
\* notification (to dark or to light) leaves the marker as it was.
C3_ExplicitPrecedence ==
    (OnThisPage /\ last.op = "systemChange" /\ last.storage \in Themes) =>
        marker = last.marker

\* stored light, the system changed to prefers-dark, the read succeeded and
\* the marker stayed absent
C3_Witness ==
    /\ OnThisPage
    /\ last.op = "systemChange"
    /\ last.io
    /\ last.storage = THEME_LIGHT
    /\ last.arg = THEME_DARK
    /\ last.marker = NoAttr
    /\ marker = NoAttr

-----------------------------------------------------------------------------
(* C4 *)

\* C4: with the watch subscribed and no value stored, every system-preference
\* change notification is applied in that step: the marker is set on a change
\* to prefers-dark and removed on a change away from it, the listener does
\* not fail, and storage is not written.
C4_SystemFollowing ==
    (OnThisPage /\ last.op = "systemChange" /\ last.storage = NoItem) =>
        /\ ~last.threw
        /\ marker = MarkerFor(last.arg)
        /\ storage = last.storage

-----------------------------------------------------------------------------
(* C5 *)

\* C5 as stated: after toggle() then toggle() the marker is in its original
\* state and storage holds its original value, whatever that was (taken here
\* in the case most favourable to it, both storage writes succeeding).
C5_InvolutionAsStated ==
    (OnThisPage /\ IsToggle(prev) /\ IsToggle(last) /\ prev.io /\ last.io) =>
        /\ marker = prev.marker
        /\ storage = prev.storage

\* C5 (amended): after toggle() then toggle() the marker is in its original
\* state; if both writes succeeded storage holds the theme the original
\* marker stood for (so it holds its original value exactly when that value
\* was this theme); if both writes failed storage holds its original value.
C5_Involution ==
    (OnThisPage /\ IsToggle(prev) /\ IsToggle(last)) =>
        /\ marker = prev.marker
        /\ (prev.io /\ last.io) =>
             /\ storage = ThemeShown(prev.marker)
             /\ (storage = prev.storage) <=> (prev.storage = ThemeShown(prev.marker))
        /\ (~prev.io /\ ~last.io) => storage = prev.storage

\* two toggles from a dark page with dark stored, both writes succeeding:
\* marker and storage are back where they were
C5_Witness ==
    /\ OnThisPage
    /\ prev.op = "toggle" /\ last.op = "toggle"
    /\ prev.io /\ last.io
    /\ prev.marker = "dark" /\ prev.storage = THEME_DARK
    /\ last.marker = NoAttr /\ last.storage = THEME_LIGHT
    /\ marker = "dark" /\ storage = THEME_DARK

-----------------------------------------------------------------------------
(* C6 *)

\* C6: when a toggle or a force-set of light/dark has written storage and the
\* page is then reloaded, and the start-up read succeeds, initial resolution
\* returns the persisted theme whatever the system signal is, and the
\* start-up apply shows it.
C6_RoundTrip ==
    (/\ pc = "applied"
     /\ last.op = "startup" /\ last.io
     /\ IsPersist(prev) /\ prev.io
     /\ Persisted(prev) \in Themes) =>
        /\ last.ret = Persisted(prev)
        /\ marker = MarkerFor(Persisted(prev))

\* a toggle to dark was persisted; after the reload the system prefers light,
\* the authored marker is absent, and dark is resolved and applied
C6_Witness ==
    /\ pc = "applied"
    /\ last.op = "startup" /\ last.io
    /\ prev.op = "toggle" /\ prev.io /\ prev.ret = THEME_DARK
    /\ SystemTheme = THEME_LIGHT
    /\ last.marker = NoAttr
    /\ last.ret = THEME_DARK
    /\ marker = "dark"

-----------------------------------------------------------------------------
(* C7 *)

\* C7: a toggle takes the current theme from the marker, never from storage:
\* the new theme is dark iff the marker was absent, the marker afterwards
\* stands for the new theme, the new theme is returned, and exactly one
\* themechange notification carrying it is emitted.
C7_ToggleFromMarker ==
    (OnThisPage /\ IsToggle(last)) =>
        /\ (last.ret = THEME_DARK) <=> (last.marker = NoAttr)
        /\ last.ret \in Themes
        /\ marker = MarkerFor(last.ret)
        /\ emitted = <<last.ret>>

\* marker dark while storage held light: the toggle went to light
C7_Witness ==
    /\ OnThisPage
    /\ last.op = "toggle"
    /\ last.marker = "dark"
    /\ last.storage = THEME_LIGHT
    /\ last.ret = THEME_LIGHT
    /\ marker = NoAttr
    /\ emitted = <<THEME_LIGHT>>

-----------------------------------------------------------------------------
(* C8 *)

\* C8: when the storage write fails during a toggle or a force-set, nothing
\* is thrown, the marker stands for the new theme, storage is as it was
\* before the call, and a toggle still emits its notification and returns
\* the new theme.
C8_WriteFailureSwallowed ==
    (OnThisPage /\ IsPersist(last) /\ ~last.io) =>
        /\ ~last.threw
        /\ storage = last.storage
        /\ last.op = "setTheme" => marker = MarkerFor(last.arg)
        /\ IsToggle(last) =>
             /\ last.ret = (IF last.marker = NoAttr THEN THEME_DARK ELSE THEME_LIGHT)
             /\ marker = MarkerFor(last.ret)
             /\ emitted = <<last.ret>>

\* a toggle to dark whose write failed while light was stored
C8_Witness ==
    /\ OnThisPage
    /\ last.op = "toggle"
    /\ ~last.io
    /\ last.storage = THEME_LIGHT
    /\ last.marker = NoAttr
    /\ marker = "dark"
    /\ storage = THEME_LIGHT
    /\ emitted = <<THEME_DARK>>

-----------------------------------------------------------------------------
(* C9 *)

\* the operation recorded in r called applyTheme; Applied(r) is what it passed
DidApply(r) ==
    \/ r.op \in {"startup", "setTheme"}
    \/ IsToggle(r)
    \/ r.op = "systemChange" /\ ~r.threw /\ r.storage \in {NoItem, ""}

Applied(r) == IF r.op \in {"setTheme", "systemChange"} THEN r.arg ELSE r.ret

\* C9: applying light removes the marker and applying dark sets it; applying
\* the same theme a second time leaves the marker as the first application
\* left it; the operations that apply without persisting (start-up, the
\* system-change listener) leave storage alone.
C9_ApplyIdempotent ==
    OnThisPage =>
        /\ DidApply(last) => marker = MarkerFor(Applied(last))
        /\ (DidApply(prev) /\ DidApply(last) /\ Applied(prev) = Applied(last)
              /\ last.op # "startup") =>
             marker = last.marker
        /\ last.op \in {"startup", "systemChange"} => storage = last.storage

\* dark force-set twice in a row: the marker is present after each
C9_Witness ==
    /\ OnThisPage
    /\ prev.op = "setTheme" /\ prev.arg = THEME_DARK
    /\ last.op = "setTheme" /\ last.arg = THEME_DARK
    /\ prev.marker = NoAttr
    /\ last.marker = "dark"
    /\ marker = "dark"

-----------------------------------------------------------------------------
(* C10 *)

\* C10: getTheme() returns dark iff the marker is present; right after
\* setTheme(light|dark) the marker stands for that theme, a getTheme() call
\* returns it, and storage holds it if the write succeeded.
C10_ControlSurface ==
    OnThisPage =>
        /\ last.op = "getTheme" =>
             /\ (last.ret = THEME_DARK) <=> (marker # NoAttr)
             /\ (last.ret = THEME_LIGHT) <=> (marker = NoAttr)
        /\ (last.op = "setTheme" /\ last.arg \in Themes) =>
             /\ marker = MarkerFor(last.arg)
             /\ last.io => storage = last.arg
        /\ (prev.op = "setTheme" /\ prev.arg \in Themes /\ last.op = "getTheme") =>
             last.ret = prev.arg

\* setTheme(dark) on a light page with light stored, then getTheme()
C10_Witness ==
    /\ OnThisPage
    /\ prev.op = "setTheme" /\ prev.arg = THEME_DARK /\ prev.io
    /\ prev.marker = NoAttr /\ prev.storage = THEME_LIGHT
    /\ last.op = "getTheme" /\ last.ret = THEME_DARK
    /\ marker = "dark" /\ storage = THEME_DARK

-----------------------------------------------------------------------------
(* C11 *)

\* C11: a key press on a bound trigger with the space key or with Enter
\* toggles exactly once (the marker flips, one notification is emitted, the
\* default action is suppressed); a press of any other key changes neither
\* marker nor storage and emits nothing.
C11_KeyboardActivation ==
    (OnThisPage /\ last.op = "keydown") =>
        IF last.arg \in {" ", "Enter"}
        THEN /\ last.dflt
             /\ marker = MarkerFor(IF last.marker = NoAttr THEN THEME_DARK ELSE THEME_LIGHT)
             /\ marker # last.marker
             /\ last.ret = ThemeShown(marker)
             /\ emitted = <<last.ret>>
        ELSE /\ ~last.dflt
             /\ marker = last.marker
             /\ storage = last.storage
             /\ emitted = <<>>

\* the space key on a trigger of a light page: dark once, one notification
C11_Witness ==
    /\ OnThisPage
    /\ last.op = "keydown" /\ last.arg = " "
    /\ last.dflt
    /\ last.marker = NoAttr
    /\ marker = "dark"
    /\ emitted = <<THEME_DARK>>

-----------------------------------------------------------------------------
(* C12 *)

\* C12: when storage holds a non-empty value that is neither light nor dark,
\* a system-preference change notification applies the new system theme to
\* the marker, as it does when nothing is stored (taken here with the
\* listener's storage read succeeding).
C12_MalformedFollowsSystem ==
    (/\ OnThisPage
     /\ last.op = "systemChange" /\ last.io
     /\ last.storage \notin (Themes \cup {NoItem, ""})) =>
        marker = MarkerFor(last.arg)

-----------------------------------------------------------------------------
(* C13 *)

\* C13: when the storage read throws during a system-change notification the
\* listener does not propagate the error and applies the new system theme,
\* as if nothing were stored.
C13_ListenerCatchesRead ==
    (OnThisPage /\ last.op = "systemChange" /\ ~last.io) =>
        /\ ~last.threw
        /\ marker = MarkerFor(last.arg)

-----------------------------------------------------------------------------
(* C14 *)

\* C14: the initial theme is resolved and applied before any binding or
\* subscription; binding and the watch set-up run exactly once, at once when
\* the document is already parsed and otherwise only after DOMContentLoaded;
\* no trigger activation or system-change notification is handled earlier.
C14_StartupOrdering ==
    /\ inits <= 1 /\ watches <= 1 /\ subscribed <= 1
    /\ pc \in {"start", "applied"} =>
         inits = 0 /\ watches = 0 /\ subscribed = 0 /\ bound = {} /\ ~dclListener
    /\ (inits > 0 \/ watches > 0 \/ dclListener) =>
         /\ pc \in {"inited", "idle"}
         /\ last.op # "none"
    /\ readyState = "loading" =>
         inits = 0 /\ watches = 0 /\ subscribed = 0 /\ bound = {}
    /\ (pc \in {"inited", "idle"} /\ readyState # "loading") =>
         /\ inits = 1 /\ watches = 1
         /\ bound = 1..switchers
         /\ subscribed = (IF hasMatchMedia THEN 1 ELSE 0)
    /\ (pc \in {"inited", "idle"} /\ readyState = "loading") => dclListener
    /\ (OnThisPage /\ last.op \in {"click", "keydown", "systemChange"}) =>
         inits = 1 /\ watches = 1 /\ readyState # "loading"

\* the script ran while the document was loading; binding and subscription
\* happened once at DOMContentLoaded, and a click was handled afterwards
C14_Witness ==
    /\ pc = "idle"
    /\ dclListener
    /\ readyState = "interactive"
    /\ inits = 1 /\ watches = 1 /\ subscribed = 1
    /\ bound = 1..switchers /\ switchers = MaxSwitchers
    /\ prev.op = "startup"
    /\ last.op = "click"

-----------------------------------------------------------------------------
(* C15 *)

\* C15: a step changes storage only if it is a toggle (by call, click or
\* activating key) or a force-set; start-up, getTheme, system-change
\* notifications and the other steps leave it unchanged; no step removes
\* the key once a value is stored.
C15_StorageFrame ==
    [][ /\ storage' # storage =>
             /\ prev' = last
             /\ IsPersist(last')
             /\ last'.storage = storage
             /\ storage' = Persisted(last')
        /\ storage # NoItem => storage' # NoItem ]_vars

\* a toggle stored dark where nothing was stored; a system-change
\* notification then left storage as it was
C15_Witness ==
    /\ OnThisPage
    /\ IsToggle(prev) /\ prev.io /\ prev.storage = NoItem /\ prev.ret = THEME_DARK
    /\ last.op = "systemChange" /\ last.storage = THEME_DARK
    /\ storage = THEME_DARK

-----------------------------------------------------------------------------
(* C16 *)

\* C16: in runs where storage reads and writes succeed and setTheme is handed
\* light or dark, in every state after the start-up apply, whenever storage
\* holds light or dark the marker is present iff the stored value is dark.
C16_Projection ==
    (OnThisPage /\ storage \in Themes) =>
        ((marker # NoAttr) <=> (storage = THEME_DARK))

\* light was toggled and stored, the system then changed to prefers-dark, and
\* the page still shows light
C16_Witness ==
    /\ OnThisPage
    /\ IsToggle(prev) /\ prev.ret = THEME_LIGHT
    /\ last.op = "systemChange" /\ last.arg = THEME_DARK
    /\ storage = THEME_LIGHT
    /\ marker = NoAttr

-----------------------------------------------------------------------------
(* C17 *)

\* C17: after a toggle whose storage write failed while nothing was stored,
\* a system-preference change notification that arrives before the next
\* toggle or force-set leaves the toggled theme applied.
C17_StableAfterFailedPersist ==
    (/\ OnThisPage
     /\ IsToggle(prev) /\ ~prev.io /\ prev.storage = NoItem
     /\ last.op = "systemChange") =>
        marker = MarkerFor(prev.ret)

====
